---- MODULE Spec2Model ----
(***************************************************************************)
(* Appendable Hash Tree (package ahtree): the tree engine over three       *)
(* append-only logs, pLog (payloads), dLog (digests) and cLog (commits).   *)
(*                                                                         *)
(* Digests are symbolic terms: Sum256 is injective on its input, so two    *)
(* digests are equal exactly when they were computed from the same bytes.  *)
(* pLog and cLog hold bytes; dLog holds byte ranges of digests (chunks),   *)
(* so that a write of part of a digest, and a read that straddles two      *)
(* records, are both representable.                                        *)
(***************************************************************************)
EXTENDS Integers, Sequences, FiniteSets, TLC

(* ------------------------------ bounds --------------------------------- *)

\* most leaves committed to the commit log where log calls fail and processes die
MaxLeaves == 2

\* most leaves committed where the calls of the public interface are made
MaxCallLeaves == 1

\* most leaves of a tree grown by successful Appends only
MaxGrow == 6

\* offsets decoded from the logs are exact below OffsetCap and OffsetCap above;
\* no log of a behaviour is that long
OffsetCap == 1048576

\* most failed Appends, kills and noise events in a behaviour
MaxFaults == 1

\* the width of the words the geometry computes in, narrowed from uint64
WordBits == 16

\* the goroutines that share one handle
MaxThreads == 2

\* the geometry is computed for every n from 0 to MaxGeometry and for the
\* words around the top bit
MaxGeometry == 64

(* ------------------------- program constants --------------------------- *)

sha256Size == 32

cLogEntrySize == 12

NodePrefix == 1

\* the payloads handed to Append: the empty one, whose bytes are not written,
\* and one that a failing write can cut in two
Payloads == {<< >>, <<7, 9>>}

(* ------------------------------ errors --------------------------------- *)

ErrNil == "nil"
ErrIllegalArguments == "illegal arguments"
ErrCorruptedCLog == "commit log is corrupted"
ErrorCorruptedData == "data log is corrupted"
ErrorCorruptedDigests == "hash log is corrupted"
ErrAlreadyClosed == "already closed"
ErrEmptyTree == "empty tree"
ErrReadOnly == "cannot append when openned in read-only mode"
ErrUnexistentData == "attempt to read unexistent data"
\* an error returned by a log (failed write or flush, read past the end)
ErrIO == "io error"
\* the runtime panic of an integer division by zero, passed on to the caller
ErrDivideByZero == "panic: integer divide by zero"

(* ----------------------------- bit helpers ----------------------------- *)

Shr(x, l) == x \div (2 ^ l)

\* a uint64 value, in a word of WordBits bits
Wrap(x) == x % (2 ^ WordBits)

\* x << l in a word of WordBits bits: 0 when l is the width or more
Shl(x, l) == IF l >= WordBits THEN 0 ELSE (x % (2 ^ (WordBits - l))) * (2 ^ l)

BitSet(x, h) == (x \div (2 ^ h)) % 2 = 1

\* k &^ (1 << l)
ClearBit(x, l) == IF BitSet(x, l) THEN x - 2 ^ l ELSE x

RECURSIVE Len64(_)
\* bits.Len64: the number of bits needed to represent x
Len64(x) == IF x = 0 THEN 0 ELSE 1 + Len64(x \div 2)

(* ------------------------------ geometry ------------------------------- *)

\* what nodesUpto yields when its division by 1 << l panics
DivideByZero == -1

RECURSIVE nodesUptoLoop(_, _, _)
nodesUptoLoop(n, o, l) ==
    IF n < Shl(1, l) THEN o
    ELSE IF Shl(1, l) = 0 THEN DivideByZero
    ELSE LET o1 == Wrap(o + Shl(Shr(n, l + 1), l))
             o2 == IF (n \div Shl(1, l)) % 2 = 1 THEN Wrap(o1 + (n % Shl(1, l))) ELSE o1
         IN  nodesUptoLoop(n, o2, l + 1)

\* as nodesUpto, o starting at 0
nodesUptoMut(n) == nodesUptoLoop(n, 0, 0)

nodesUpto(n) == nodesUptoLoop(n, n, 0)

nodesUntil(n) == IF n = 1 THEN 0 ELSE nodesUpto(Wrap(n - 1))

RECURSIVE levelsAtLoop(_, _)
levelsAtLoop(w, l) ==
    IF w > 0 THEN levelsAtLoop(w \div 2, IF w % 2 = 1 THEN l + 1 ELSE l)
    ELSE l

\* a variant that counts the bits of n instead of n - 1
levelsAtMut(n) == levelsAtLoop(n, 0)

levelsAt(n) == levelsAtLoop(Wrap(n - 1), 0)

(* ------------------------------ digests -------------------------------- *)

\* sha256.Sum256 of a payload: a term over the hashed bytes
Sum256(d) == <<"sha256", d>>

\* sha256.Sum256 of the 65 bytes NodePrefix || left || right
Sum256Node(left, right) == <<"sha256", NodePrefix, left, right>>

\* the zero value of [sha256.Size]byte
ZeroDigest == <<"zero">>

\* bytes that no append of this tree produced
NoiseDigest == <<"noise">>

\* what a 32-byte buffer holds after it was filled from the given slices
Torn(slices) == <<"torn", slices, 0>>

(* -------------------- big-endian integer encoding ---------------------- *)

RECURSIVE PutUint(_, _)
\* binary.BigEndian.PutUintNN: v as w bytes, most significant first
PutUint(v, w) ==
    IF w = 0 THEN << >>
    ELSE Append(PutUint(v \div 256, w - 1), v % 256)

RECURSIVE Uint(_)
\* binary.BigEndian.UintNN: the value of a byte sequence
Uint(bs) ==
    IF bs = << >> THEN 0
    ELSE LET hi == Uint(SubSeq(bs, 1, Len(bs) - 1))
         IN  IF hi * 256 + bs[Len(bs)] >= OffsetCap \/ hi >= OffsetCap THEN OffsetCap
             ELSE hi * 256 + bs[Len(bs)]

(* ------------------------------- state --------------------------------- *)

VARIABLES
    pLog,        \* payload log: [data: bytes, off: the offset the next append writes at]
    dLog,        \* digest log: [data: chunks of digests, off]
    cLog,        \* commit log: [data: bytes, off]
    pLogSize,    \* AHtree.pLogSize
    dLogSize,    \* AHtree.dLogSize
    cLogSize,    \* AHtree.cLogSize
    readOnly,    \* AHtree.readOnly
    closed,      \* AHtree.closed
    alive,       \* a handle exists: the process runs and the last open succeeded
    truncating,  \* whether the logs drop the bytes past the offset on SetOffset
    ret,         \* what the last call returned
    appended,    \* <<n, payload>> for every Append that returned n without error
    roots,       \* <<n, digest>> for the root slot of n as first seen committed
    faults,      \* how often an Append failed, the process was killed or noise appeared
    seen,        \* what the queries answered when the process was killed, until the
                 \* next call on a handle
    dReadFails,  \* whether the device fails every ReadAt of the digest log
    mutex,       \* AHtree.mutex: the goroutine that holds it, 0 when it is free
    running      \* the call each goroutine is in

\* some Append has failed, the process was killed or noise has appeared
failed == faults > 0

logs == <<pLog, dLog, cLog>>

sizes == <<pLogSize, dLogSize, cLogSize>>

ghosts == <<appended, roots, faults>>

conc == <<mutex, running>>

vars == <<pLog, dLog, cLog, pLogSize, dLogSize, cLogSize, readOnly, closed,
          alive, truncating, ret, appended, roots, faults, seen, dReadFails, mutex,
          running>>

\* the goroutines that call the handle
Threads == 1 .. MaxThreads

\* a goroutine outside every call
Idle == [op |-> "none"]

\* no kill since the last call on a handle
NotKilled == [killed |-> FALSE, cWritten |-> FALSE, view |-> << >>]

(* ---------------- the append-only logs (appendable.Appendable) ---------- *)

Min(a, b) == IF a < b THEN a ELSE b

EmptyLog == [data |-> << >>, off |-> 0]

\* Size of a byte log
LogSize(log) == Len(log.data)

\* SetOffset of a byte log
LogSetOffset(log, off) ==
    [data |-> IF truncating THEN SubSeq(log.data, 1, Min(off, Len(log.data)))
              ELSE log.data,
     off |-> off]

\* Append to a byte log: the bytes go to the current offset
LogAppend(log, bs) ==
    [data |-> SubSeq(log.data, 1, log.off) \o bs
              \o SubSeq(log.data, log.off + Len(bs) + 1, Len(log.data)),
     off |-> log.off + Len(bs)]

\* ReadAt of a byte log: n bytes from offset off
LogReadAt(log, n, off) ==
    IF off + n <= Len(log.data)
    THEN [bs |-> SubSeq(log.data, off + 1, off + n), err |-> ErrNil]
    ELSE [bs |-> << >>, err |-> ErrIO]

\* a chunk <<d, lo, hi>> is the bytes lo .. hi-1 of the digest d
ChunkLen(c) == c[3] - c[2]

WholeDigest(d) == <<d, 0, sha256Size>>

RECURSIVE DLen(_)
DLen(cs) == IF cs = << >> THEN 0 ELSE ChunkLen(Head(cs)) + DLen(Tail(cs))

RECURSIVE DTake(_, _)
\* the first n bytes of a chunk sequence
DTake(cs, n) ==
    IF n <= 0 \/ cs = << >> THEN << >>
    ELSE LET c == Head(cs)
         IN  IF ChunkLen(c) <= n
             THEN <<c>> \o DTake(Tail(cs), n - ChunkLen(c))
             ELSE << <<c[1], c[2], c[2] + n>> >>

RECURSIVE DDrop(_, _)
\* a chunk sequence without its first n bytes
DDrop(cs, n) ==
    IF cs = << >> THEN << >>
    ELSE IF n <= 0 THEN cs
    ELSE LET c == Head(cs)
         IN  IF ChunkLen(c) <= n
             THEN DDrop(Tail(cs), n - ChunkLen(c))
             ELSE << <<c[1], c[2] + n, c[3]>> >> \o Tail(cs)

\* Size of the digest log
DSize(log) == DLen(log.data)

\* SetOffset of the digest log
DSetOffset(log, off) ==
    [data |-> IF truncating THEN DTake(log.data, off) ELSE log.data,
     off |-> off]

\* Append to the digest log
DAppend(log, cs) ==
    [data |-> DTake(log.data, log.off) \o cs \o DDrop(log.data, log.off + DLen(cs)),
     off |-> log.off + DLen(cs)]

\* ReadAt of the digest log into a zeroed 32-byte buffer
DReadAt(log, off) ==
    LET slices == DTake(DDrop(log.data, off), sha256Size)
    IN  IF slices = << >> THEN [h |-> ZeroDigest, err |-> ErrIO]
        ELSE IF DLen(slices) < sha256Size THEN [h |-> Torn(slices), err |-> ErrIO]
        ELSE IF Len(slices) = 1 /\ slices[1][2] = 0
             THEN [h |-> slices[1][1], err |-> ErrNil]
             ELSE [h |-> Torn(slices), err |-> ErrNil]

\* a log as it is after it was opened: appends go to its end
Reopened(log, size) == [data |-> log.data, off |-> size]

(* ------------------------------ node lookup ---------------------------- *)

\* AHtree.node: the read error is dropped and the buffer returned as it is
\* as node, the records of leaf n looked for behind those of leaf n
nodeMut(n, l) ==
    IF dReadFails THEN ZeroDigest
    ELSE DReadAt(dLog, (nodesUpto(n) + l) * sha256Size).h

node(n, l) ==
    IF dReadFails THEN ZeroDigest
    ELSE DReadAt(dLog, (nodesUntil(n) + l) * sha256Size).h

\* a variant that always takes the leaf digest
highestNodeMut(i, d) == node(i, 0)

\* AHtree.highestNode
highestNode(i, d) ==
    node(i, Cardinality({r \in 0 .. (d - 1) : BitSet(i - 1, r)}))

(* -------------------------------- open --------------------------------- *)

\* the pLogSize OpenWith computes from the last commit record
OpenPLogSize(cSize) ==
    IF cSize > 0
    THEN LET b == LogReadAt(cLog, cLogEntrySize, cSize - cLogEntrySize).bs
             pOff == Uint(SubSeq(b, 1, 8))
             pSize == Uint(SubSeq(b, 9, 12))
         IN  pOff + pSize
    ELSE 0

\* a variant that takes bytes past the committed digests for corruption
OpenErrMut ==
    LET cSize == LogSize(cLog)
    IN  IF cSize % cLogEntrySize > 0 THEN ErrCorruptedCLog
        ELSE IF LogSize(pLog) < OpenPLogSize(cSize) THEN ErrorCorruptedData
        ELSE IF DSize(dLog) # nodesUpto(cSize \div cLogEntrySize) * sha256Size
             THEN ErrorCorruptedDigests
        ELSE ErrNil

\* a variant that asks D only for the digests below the last leaf
OpenErrLax ==
    LET cSize == LogSize(cLog)
    IN  IF cSize % cLogEntrySize > 0 THEN ErrCorruptedCLog
        ELSE IF LogSize(pLog) < OpenPLogSize(cSize) THEN ErrorCorruptedData
        ELSE IF DSize(dLog) < nodesUntil(cSize \div cLogEntrySize) * sha256Size
             THEN ErrorCorruptedDigests
        ELSE ErrNil

\* the error OpenWith returns for the three logs as they are
OpenErr ==
    LET cSize == LogSize(cLog)
    IN  IF cSize % cLogEntrySize > 0 THEN ErrCorruptedCLog
        ELSE IF LogSize(pLog) < OpenPLogSize(cSize) THEN ErrorCorruptedData
        ELSE IF DSize(dLog) < nodesUpto(cSize \div cLogEntrySize) * sha256Size
             THEN ErrorCorruptedDigests
        ELSE ErrNil

RootSlot(n) == nodesUntil(n) + levelsAt(n)

\* the root slots of the leaves counted by a commit log of cSize bytes
RootsUpTo(cSize) ==
    {<<n, DReadAt(dLog, RootSlot(n) * sha256Size).h>> : n \in 1 .. (cSize \div cLogEntrySize)}

\* roots, extended by the slots of the leaves not recorded yet
Recorded(new) == roots \cup {r \in new : \A q \in roots : q[1] # r[1]}

\* OpenWith on the three logs, after Close or after the process was killed
OpenWith(ro, max) ==
    /\ closed \/ ~alive
    /\ LogSize(cLog) \div cLogEntrySize <= max
    /\ pLog' = Reopened(pLog, LogSize(pLog))
    /\ dLog' = Reopened(dLog, DSize(dLog))
    /\ cLog' = Reopened(cLog, LogSize(cLog))
    /\ ret' = [op |-> "OpenWith", err |-> OpenErr]
    /\ IF OpenErr = ErrNil
       THEN /\ pLogSize' = OpenPLogSize(LogSize(cLog))
            /\ dLogSize' = DSize(dLog)
            /\ cLogSize' = LogSize(cLog)
            /\ readOnly' = ro
            /\ closed' = FALSE
            /\ alive' = TRUE
            /\ roots' = Recorded(RootsUpTo(LogSize(cLog)))
       ELSE /\ alive' = FALSE
            /\ UNCHANGED <<sizes, readOnly, closed, roots>>
    /\ UNCHANGED <<truncating, dReadFails, conc, appended, faults, seen>>

\* Open on a fresh directory: OpenWith on three empty logs
Init ==
    /\ pLog = EmptyLog
    /\ dLog = EmptyLog
    /\ cLog = EmptyLog
    /\ pLogSize = 0
    /\ dLogSize = 0
    /\ cLogSize = 0
    /\ readOnly = FALSE
    /\ closed = FALSE
    /\ alive = TRUE
    /\ truncating \in BOOLEAN
    /\ ret = [op |-> "OpenWith", err |-> ErrNil]
    /\ appended = {}
    /\ roots = {}
    /\ faults = 0
    /\ seen = NotKilled
    /\ dReadFails = FALSE
    /\ mutex = 0
    /\ running = [t \in Threads |-> Idle]

(* ------------------------------- append -------------------------------- *)

\* the steps of Append at which a log can return an error
FailPoints == {"pAppendLen", "pAppendData", "pFlush", "dAppend", "dFlush", "cAppend", "cFlush"}

\* the log calls of one Append, in the order the code makes them
AppendOrder ==
    <<"P.SetOffset", "P.Append", "P.Append", "P.Flush",
      "D.SetOffset", "D.Append", "D.Flush", "C.Append", "C.Flush">>

\* how many bytes a write of len bytes leaves behind when it fails
PartsOf(len) == {0, len \div 2}

RECURSIVE DigestChain(_, _, _, _, _)
\* the loop of Append: the digests staged in _digests, the leaf digest first
DigestChain(w, l, k, h, acc) ==
    IF w > 0
    THEN IF w % 2 = 1
         THEN LET h2 == Sum256Node(node(k, l), h)
              IN  DigestChain(Shr(w, 1), l + 1, ClearBit(k, l), h2, Append(acc, h2))
         ELSE DigestChain(Shr(w, 1), l + 1, ClearBit(k, l), h, acc)
    ELSE acc

\* as Staged, the leaf digest staged twice
StagedMut(n, d) ==
    <<Sum256(d)>> \o DigestChain(n - 1, 0, n - 1, Sum256(d), <<Sum256(d)>>)

\* the digests Append stages for leaf n with payload d
Staged(n, d) == DigestChain(n - 1, 0, n - 1, Sum256(d), <<Sum256(d)>>)

\* the position of a step among the steps that can fail ("none": after all)
StepNo(fp) ==
    CASE fp = "pAppendLen" -> 1
      [] fp = "pAppendData" -> 2
      [] fp = "pFlush" -> 3
      [] fp = "dAppend" -> 4
      [] fp = "dFlush" -> 5
      [] fp = "cAppend" -> 6
      [] fp = "cFlush" -> 7
      [] OTHER -> 8

\* the bytes a write hands to the log: all of them unless it is the failing write
Written(bs, fp, me, part) == IF fp = me THEN SubSeq(bs, 1, part) ELSE bs

\* a variant that numbers the leaves from zero
NextIndexMut == cLogSize \div cLogEntrySize

\* the index Append gives the new leaf
NextIndex == (cLogSize \div cLogEntrySize) + 1

\* a variant that starts one digest too early
DigestOffsetMut == dLogSize - sha256Size

\* the offset Append sets the digest log to before it writes the staged digests
DigestOffset == dLogSize

\* the offset Append sets the payload log to before it writes the payload
PayloadOffset == pLogSize

\* a variant that appends the commit record before the digest log is flushed
CommitWrittenMut(s) == s >= 5

\* whether Append, stopped by an error at step s (8: no error), appended to cLog
CommitWritten(s) == s >= 6

\* a variant that returns the digest staged first, the leaf digest
ReturnedHashMut(staged) == staged[1]

\* the h Append returns: the value h holds after the loop, the digest staged last
ReturnedHash(staged) == staged[Len(staged)]

\* Append(d) run on an open, writable handle up to the failing step fp
\* ("none": to the end); a failing write leaves part bytes behind.
AppendRun(d, fp, part) ==
    LET s == StepNo(fp)
        skipData == Len(d) = 0
        p0 == LogSetOffset(pLog, PayloadOffset)
        poff == p0.off
        p1 == LogAppend(p0, Written(PutUint(Len(d), 4), fp, "pAppendLen", part))
        p2 == IF s >= 2 /\ ~skipData
              THEN LogAppend(p1, Written(d, fp, "pAppendData", part))
              ELSE p1
        n == NextIndex
        staged == Staged(n, d)
        h == ReturnedHash(staged)
        stagedBytes == [x \in 1 .. Len(staged) |-> WholeDigest(staged[x])]
        d0 == DSetOffset(dLog, DigestOffset)
        d1 == DAppend(d0, IF fp = "dAppend" THEN DTake(stagedBytes, part) ELSE stagedBytes)
        cLogEntry == PutUint(poff, 8) \o PutUint(Len(d), 4)
        c1 == LogAppend(cLog, Written(cLogEntry, fp, "cAppend", part))
        calls == IF s = 1 THEN 2
                 ELSE IF s = 2 THEN 3
                 ELSE IF s = 3 THEN 4
                 ELSE IF s = 4 THEN 6
                 ELSE s + 2
        done == SubSeq(AppendOrder, 1, Min(calls, 9))
    IN  [pLog |-> p2,
         dLog |-> IF s >= 4 THEN d1 ELSE dLog,
         cLog |-> IF CommitWritten(s) THEN c1 ELSE cLog,
         pLogSize |-> IF s = 8 THEN pLogSize + 4 + Len(d) ELSE pLogSize,
         dLogSize |-> IF s = 8 THEN dLogSize + Len(staged) * sha256Size ELSE dLogSize,
         cLogSize |-> IF s = 8 THEN cLogSize + cLogEntrySize ELSE cLogSize,
         n |-> IF s >= 3 THEN n ELSE 0,
         h |-> IF s >= 3 THEN h ELSE ZeroDigest,
         err |-> IF s = 8 THEN ErrNil ELSE ErrIO,
         ops |-> IF skipData /\ Len(done) >= 3
                 THEN [x \in 1 .. (Len(done) - 1) |-> IF x < 3 THEN done[x] ELSE done[x + 1]]
                 ELSE done]

\* the steps of Append(d) that exist: an empty payload is not written
CanFailAt(d, fp) == fp = "pAppendData" => Len(d) > 0

\* the lengths of the write that fails at fp
FailParts(d, fp) ==
    CASE fp = "pAppendLen" -> PartsOf(4)
      [] fp = "pAppendData" -> PartsOf(Len(d))
      [] fp = "dAppend" -> PartsOf(sha256Size)
      [] fp = "cAppend" -> PartsOf(cLogEntrySize)
      [] OTHER -> {0}

\* Append on a closed or read-only handle
AppendRejected(d) ==
    /\ alive
    /\ closed \/ readOnly
    /\ ret' = [op |-> "Append", n |-> 0, h |-> ZeroDigest,
               err |-> IF closed THEN ErrAlreadyClosed ELSE ErrReadOnly,
               ops |-> << >>, fp |-> "none"]
    /\ seen' = NotKilled
    /\ UNCHANGED <<logs, sizes, readOnly, closed, alive, truncating, dReadFails, conc, ghosts>>

\* Append(d): fp = "none" when no log call fails
AppendWith(d, fp, part, max) ==
    /\ alive /\ ~closed /\ ~readOnly
    /\ LogSize(cLog) \div cLogEntrySize < max
    /\ LET r == AppendRun(d, fp, part)
       IN  /\ pLog' = r.pLog
           /\ dLog' = r.dLog
           /\ cLog' = r.cLog
           /\ pLogSize' = r.pLogSize
           /\ dLogSize' = r.dLogSize
           /\ cLogSize' = r.cLogSize
           /\ ret' = [op |-> "Append", n |-> r.n, h |-> r.h, err |-> r.err,
                      ops |-> r.ops, fp |-> fp]
           /\ appended' = IF r.err = ErrNil THEN appended \cup {<<r.n, d>>} ELSE appended
           /\ roots' = IF r.err = ErrNil
                       THEN roots \cup {<<r.n, DReadAt(r.dLog, RootSlot(r.n) * sha256Size).h>>}
                       ELSE roots
           /\ faults' = IF r.err # ErrNil THEN faults + 1 ELSE faults
    /\ seen' = NotKilled
    /\ UNCHANGED <<readOnly, closed, alive, truncating, dReadFails, conc>>

\* an Append during which no log call fails
AppendOk == \E d \in Payloads : AppendWith(d, "none", 0, MaxLeaves)

\* the same, where the calls of the public interface are made
CallAppendOk == \E d \in Payloads : AppendWith(d, "none", 0, MaxCallLeaves)

\* the same, in a tree that may grow to MaxGrow leaves
GrowOk == \E d \in Payloads : AppendWith(d, "none", 0, MaxGrow)

\* an Append during which one log call fails
AppendFailsUpTo(max) ==
    \E d \in Payloads, fp \in FailPoints :
        /\ faults < MaxFaults
        /\ CanFailAt(d, fp)
        /\ \E part \in FailParts(d, fp) : AppendWith(d, fp, part, max)

AppendFails == AppendFailsUpTo(MaxLeaves)

\* the same, where the calls of the public interface are made
CallAppendFails == AppendFailsUpTo(MaxCallLeaves)

(* ------------------------------- queries ------------------------------- *)

\* Size
Size == cLogSize \div cLogEntrySize

\* DataAt(n)
DataAt(n) ==
    IF closed THEN [val |-> << >>, err |-> ErrAlreadyClosed]
    ELSE IF n < 1 THEN [val |-> << >>, err |-> ErrIllegalArguments]
    ELSE IF n > Size THEN [val |-> << >>, err |-> ErrUnexistentData]
    ELSE LET b == LogReadAt(cLog, cLogEntrySize, (n - 1) * cLogEntrySize)
         IN  IF b.err # ErrNil THEN [val |-> << >>, err |-> b.err]
             ELSE LET pOff == Uint(SubSeq(b.bs, 1, 8))
                      pSize == Uint(SubSeq(b.bs, 9, 12))
                      p == LogReadAt(pLog, pSize, pOff + 4)
                  IN  IF p.err # ErrNil THEN [val |-> << >>, err |-> p.err]
                      ELSE [val |-> p.bs, err |-> ErrNil]

\* RootAt(n)
RootAt(n) ==
    IF closed THEN [val |-> ZeroDigest, err |-> ErrAlreadyClosed]
    ELSE IF cLogSize = 0 THEN [val |-> ZeroDigest, err |-> ErrEmptyTree]
    ELSE IF n > Size THEN [val |-> ZeroDigest, err |-> ErrUnexistentData]
    ELSE IF nodesUntil(n) = DivideByZero THEN [val |-> ZeroDigest, err |-> ErrDivideByZero]
    ELSE IF dReadFails THEN [val |-> ZeroDigest, err |-> ErrIO]
    ELSE LET r == DReadAt(dLog, (nodesUntil(n) + levelsAt(n)) * sha256Size)
         IN  [val |-> r.h, err |-> r.err]

\* Root
Root == RootAt(Size)

RECURSIVE inclusionLoop(_, _, _, _)
\* the loop of AHtree.inclusionProof from level h down, proof collected so far
inclusionLoop(i, j, h, proof) ==
    IF h < 0 THEN proof
    ELSE IF BitSet(j - 1, h)
         THEN LET k == Shl(Shr(j - 1, h), h)
              IN  IF i <= k
                  THEN inclusionLoop(i, k, h - 1, << >>) \o <<highestNode(j, h)>> \o proof
                  ELSE inclusionLoop(i, j, h - 1, <<node(k, h)>> \o proof)
         ELSE inclusionLoop(i, j, h - 1, proof)

\* as inclusionProof, the entries in the opposite order
inclusionProofMut(i, j, height) ==
    LET p == inclusionLoop(i, j, height - 1, << >>)
    IN  [x \in 1 .. Len(p) |-> p[Len(p) + 1 - x]]

\* AHtree.inclusionProof
inclusionProof(i, j, height) == inclusionLoop(i, j, height - 1, << >>)

\* as InclusionProof, j tested against Size before i against j
InclusionProofMut(i, j) ==
    IF closed THEN [val |-> << >>, err |-> ErrAlreadyClosed]
    ELSE IF j > Size THEN [val |-> << >>, err |-> ErrUnexistentData]
    ELSE IF i > j THEN [val |-> << >>, err |-> ErrIllegalArguments]
    ELSE [val |-> inclusionProof(i, j, Len64(j - 1)), err |-> ErrNil]

\* InclusionProof(i, j)
InclusionProof(i, j) ==
    IF closed THEN [val |-> << >>, err |-> ErrAlreadyClosed]
    ELSE IF i > j THEN [val |-> << >>, err |-> ErrIllegalArguments]
    ELSE IF j > Size THEN [val |-> << >>, err |-> ErrUnexistentData]
    ELSE [val |-> inclusionProof(i, j, Len64(j - 1)), err |-> ErrNil]

RECURSIVE consistencyLoop(_, _, _, _)
\* the loop of AHtree.consistencyProof from level h down, proof collected so far
consistencyLoop(i, j, h, proof) ==
    IF h < 0 THEN proof
    ELSE IF BitSet(j - 1, h)
         THEN LET k == Shl(Shr(j - 1, h), h)
              IN  IF i <= k
                  THEN (IF i < k THEN consistencyLoop(i, k, h - 1, << >>)
                        ELSE <<highestNode(i, h)>>)
                       \o <<highestNode(j, h)>> \o proof
                  ELSE IF i = j
                       THEN <<highestNode(i, h), node(k, h)>> \o proof
                       ELSE consistencyLoop(i, j, h - 1, <<node(k, h)>> \o proof)
         ELSE consistencyLoop(i, j, h - 1, proof)

\* a variant that starts one level too low
consistencyProofMut(i, j, height) == consistencyLoop(i, j, height - 2, << >>)

\* AHtree.consistencyProof
consistencyProof(i, j, height) == consistencyLoop(i, j, height - 1, << >>)

\* ConsistencyProof(i, j)
ConsistencyProof(i, j) ==
    IF closed THEN [val |-> << >>, err |-> ErrAlreadyClosed]
    ELSE IF i > j THEN [val |-> << >>, err |-> ErrIllegalArguments]
    ELSE IF j > Size THEN [val |-> << >>, err |-> ErrUnexistentData]
    ELSE [val |-> consistencyProof(i, j, Len64(j - 1)), err |-> ErrNil]

(* ---------------------------- query calls ------------------------------ *)

\* the arguments the queries are called with
Args == 1 .. (MaxCallLeaves + 1)

\* a call that returns r and changes nothing
Returns(r) ==
    /\ alive
    /\ ret' = r
    /\ seen' = NotKilled
    /\ UNCHANGED <<logs, sizes, readOnly, closed, alive, truncating, dReadFails, conc, ghosts>>

CallSize == Returns([op |-> "Size", val |-> Size, err |-> ErrNil])

CallDataAt == \E n \in Args \cup {0} : Returns([op |-> "DataAt", n |-> n] @@ DataAt(n))

CallRootAt == \E n \in Args \cup {0} : Returns([op |-> "RootAt", n |-> n] @@ RootAt(n))

CallRoot == Returns([op |-> "Root"] @@ Root)

CallInclusionProof ==
    \E i \in Args, j \in Args :
        Returns([op |-> "InclusionProof", i |-> i, j |-> j] @@ InclusionProof(i, j))

CallConsistencyProof ==
    \E i \in Args, j \in Args :
        Returns([op |-> "ConsistencyProof", i |-> i, j |-> j] @@ ConsistencyProof(i, j))

\* the table of TestAHtree: expected nodesUpto(n) for n = 1 .. 16
nodesUptoTests == <<1, 3, 5, 8, 10, 13, 16, 20, 22, 25, 28, 32, 35, 39, 43, 48>>

\* the words the geometry is computed for
GeometryArgs ==
    (0 .. MaxGeometry)
        \cup {2 ^ (WordBits - 1) - 1, 2 ^ (WordBits - 1), 2 ^ WordBits - 2, 2 ^ WordBits - 1}

\* the word after n in the order the geometry is computed in
NextWord(n) == CHOOSE m \in GeometryArgs : m > n /\ \A k \in GeometryArgs : k > n => m <= k

\* nodesUpto(n), nodesUntil(n) and levelsAt(n) computed for the next word n,
\* as the loop of TestAHtree does for the rows of its table
Geometry ==
    /\ ret.op = "geometry" => \E m \in GeometryArgs : m > ret.n
    /\ LET n == IF ret.op = "geometry" THEN NextWord(ret.n) ELSE 0
       IN  Returns([op |-> "geometry", n |-> n]
                       @@ [nodesUpto |-> nodesUpto(n)]
                       @@ [nodesUntil |-> nodesUntil(n)]
                       @@ [levelsAt |-> levelsAt(n)])

\* the logs whose Sync may fail, in the order Sync calls them
SyncOrder == <<"P", "D", "C">>

\* the index in SyncOrder of the log whose Sync fails, 0 for none
SyncStops(fail) ==
    IF fail = "none" THEN 0 ELSE CHOOSE k \in 1 .. Len(SyncOrder) : SyncOrder[k] = fail

\* as SyncResult, without the read-only test
SyncResultMut(fail) ==
    IF closed THEN [err |-> ErrAlreadyClosed, syncs |-> << >>]
    ELSE IF cLogSize = 0 THEN [err |-> ErrNil, syncs |-> << >>]
    ELSE IF fail = "none" THEN [err |-> ErrNil, syncs |-> SyncOrder]
    ELSE [err |-> ErrIO, syncs |-> SubSeq(SyncOrder, 1, SyncStops(fail))]

\* what Sync returns and the logs it has synced, the Sync of log fail failing
SyncResult(fail) ==
    IF closed THEN [err |-> ErrAlreadyClosed, syncs |-> << >>]
    ELSE IF readOnly THEN [err |-> ErrReadOnly, syncs |-> << >>]
    ELSE IF cLogSize = 0 THEN [err |-> ErrNil, syncs |-> << >>]
    ELSE IF fail = "none" THEN [err |-> ErrNil, syncs |-> SyncOrder]
    ELSE [err |-> ErrIO, syncs |-> SubSeq(SyncOrder, 1, SyncStops(fail))]

\* Sync: a log's Sync may fail
Sync ==
    \E fail \in {"none", "P", "D", "C"} :
        Returns([op |-> "Sync"] @@ SyncResult(fail))

(* ------------------------------ lifecycle ------------------------------ *)

\* as CloseWith, returning at the first log whose Close fails
CloseWithMut(errsets) ==
    /\ alive
    /\ \E errs \in errsets :
        LET first == IF "P" \in errs THEN 1 ELSE IF "D" \in errs THEN 2 ELSE 3
        IN  ret' = [op |-> "Close",
                    err |-> IF closed THEN ErrAlreadyClosed
                            ELSE IF errs = {} THEN ErrNil
                            ELSE ErrIO,
                    closes |-> IF closed THEN << >> ELSE SubSeq(<<"P", "D", "C">>, 1, first),
                    errors |-> IF closed THEN {} ELSE errs \cap {<<"P", "D", "C">>[first]}]
    /\ closed' = TRUE
    /\ seen' = NotKilled
    /\ UNCHANGED <<logs, sizes, readOnly, alive, truncating, dReadFails, conc, ghosts>>

\* Close: errs is the set of logs whose Close fails
CloseWith(errsets) ==
    /\ alive
    /\ \E errs \in errsets :
        ret' = [op |-> "Close",
                err |-> IF closed THEN ErrAlreadyClosed
                        ELSE IF errs = {} THEN ErrNil
                        ELSE ErrIO,
                closes |-> IF closed THEN << >> ELSE <<"P", "D", "C">>,
                errors |-> IF closed THEN {} ELSE errs]
    /\ closed' = TRUE
    /\ seen' = NotKilled
    /\ UNCHANGED <<logs, sizes, readOnly, alive, truncating, dReadFails, conc, ghosts>>

\* Close, any of the three logs failing to close
Close == CloseWith(SUBSET {"P", "D", "C"})

\* Close, the three logs closing without error
CloseOk == CloseWith({{}})

\* what Size, RootAt and the proofs answer for the committed leaves
View ==
    [size |-> Size,
     root |-> [m \in 1 .. Size |-> RootAt(m)],
     incl |-> [m \in 1 .. Size |-> [i \in 1 .. m |-> InclusionProof(i, m)]],
     cons |-> [m \in 1 .. Size |-> [i \in 1 .. m |-> ConsistencyProof(i, m)]]]

\* the process is killed between two calls
Kill ==
    /\ alive /\ ~closed
    /\ alive' = FALSE
    /\ faults < MaxFaults
    /\ faults' = faults + 1
    /\ ret' = [op |-> "Kill"]
    /\ seen' = [killed |-> TRUE, cWritten |-> FALSE, view |-> View]
    /\ UNCHANGED <<logs, sizes, readOnly, closed, truncating, dReadFails, conc, appended, roots>>

\* the process is killed inside Append(d), at the step fp: the bytes handed to
\* the logs so far are on disk, of the write in progress only part bytes
KillInAppend ==
    /\ alive /\ ~closed /\ ~readOnly
    /\ \E d \in Payloads, fp \in FailPoints :
        /\ CanFailAt(d, fp)
        /\ \E part \in FailParts(d, fp) :
            LET r == AppendRun(d, fp, part)
            IN  /\ pLog' = r.pLog
                /\ dLog' = r.dLog
                /\ cLog' = r.cLog
                /\ seen' = [killed |-> TRUE, cWritten |-> (r.cLog.data # cLog.data),
                             view |-> View]
    /\ ret' = [op |-> "Kill"]
    /\ alive' = FALSE
    /\ faults < MaxFaults
    /\ faults' = faults + 1
    /\ UNCHANGED <<sizes, readOnly, closed, truncating, dReadFails, conc, appended, roots>>

\* bytes of unknown origin are found at the end of the digest log when no
\* process has the logs open
NoiseLens == {16, 32}

DNoise ==
    /\ closed \/ ~alive
    /\ ret.op # "Noise"
    /\ \E m \in NoiseLens :
        dLog' = [dLog EXCEPT !.data = @ \o << <<NoiseDigest, 0, m>> >>]
    /\ ret' = [op |-> "Noise"]
    /\ faults < MaxFaults
    /\ faults' = faults + 1
    /\ UNCHANGED <<pLog, cLog, sizes, readOnly, closed, alive, truncating, dReadFails, conc,
                   appended, roots, seen>>

\* how many bytes a log loses from its end when it is cut short
PCuts == {1, 4, 5}

DCuts == {16, 32}

CCuts == {1, 12}

\* a log is found cut short, or P with bytes of unknown origin at its end,
\* when no process has the logs open
Damaged(p, d, c, what) ==
    /\ closed \/ ~alive
    /\ faults < MaxFaults
    /\ faults' = faults + 1
    /\ pLog' = p
    /\ dLog' = d
    /\ cLog' = c
    /\ ret' = [op |-> what]
    /\ UNCHANGED <<sizes, readOnly, closed, alive, truncating, dReadFails, conc, appended,
                   roots, seen>>

PCut ==
    \E k \in PCuts :
        /\ k <= LogSize(pLog)
        /\ Damaged([pLog EXCEPT !.data = SubSeq(@, 1, Len(@) - k)], dLog, cLog, "PCut")

DCut ==
    \E k \in DCuts :
        /\ k <= DSize(dLog)
        /\ Damaged(pLog, [dLog EXCEPT !.data = DTake(@, DLen(@) - k)], cLog, "DCut")

CCut ==
    \E k \in CCuts :
        /\ k <= LogSize(cLog)
        /\ Damaged(pLog, dLog, [cLog EXCEPT !.data = SubSeq(@, 1, Len(@) - k)], "CCut")

PNoise ==
    /\ ret.op # "PNoise"
    /\ Damaged([pLog EXCEPT !.data = @ \o <<255>>], dLog, cLog, "PNoise")

\* from now on the device fails every ReadAt of the digest log of the open
\* handle: no byte is read and an error is returned
DReadBreaks ==
    /\ alive /\ ~closed /\ ~dReadFails
    /\ faults < MaxFaults
    /\ faults' = faults + 1
    /\ dReadFails' = TRUE
    /\ ret' = [op |-> "DReadBreaks"]
    /\ UNCHANGED <<logs, sizes, readOnly, closed, alive, truncating, conc, appended, roots,
                   seen>>

\* the logs are opened again, writable or read-only
Reopen == \E ro \in BOOLEAN : OpenWith(ro, MaxCallLeaves)

\* the logs are opened again, read-only
ReopenRO == OpenWith(TRUE, MaxCallLeaves)

\* the logs are opened again, writable
ReopenRW == OpenWith(FALSE, MaxLeaves)

\* the same, in a tree that may grow to MaxGrow leaves
GrowReopen == OpenWith(FALSE, MaxGrow)

(* ----------------------------- goroutines ------------------------------ *)

\* the calls that take t.mutex as their first statement, with their arguments
LockedCalls ==
    [op : {"Append"}, d : Payloads]
        \cup [op : {"RootAt", "DataAt"}, n : Args]
        \cup [op : {"InclusionProof", "ConsistencyProof"}, i : Args, j : Args]
        \cup [op : {"Sync", "Close"}]

\* t.mutex.Lock() at the entry of a call c of goroutine t: it blocks while
\* another goroutine holds the mutex
Enter(t, c) ==
    /\ alive /\ running[t] = Idle
    /\ mutex = 0
    /\ c.op = "Append" => Size < MaxCallLeaves
    /\ mutex' = t
    /\ running' = [running EXCEPT ![t] = c @@ [held |-> TRUE, pc |-> "locked"]]
    /\ UNCHANGED <<logs, sizes, readOnly, closed, alive, truncating, dReadFails, ret,
                   ghosts, seen>>

\* Size(): t.cLogSize is read and returned, t.mutex is not taken
SizeCall(t) ==
    /\ alive /\ running[t] = Idle
    /\ ret' = [op |-> "Size", held |-> mutex = t, val |-> Size, err |-> ErrNil]
    /\ seen' = NotKilled
    /\ UNCHANGED <<logs, sizes, readOnly, closed, alive, truncating, dReadFails, conc, ghosts>>

\* Root(): the argument t.cLogSize / cLogEntrySize of RootAt is evaluated
\* before RootAt is entered
RootEnter(t) ==
    /\ alive /\ running[t] = Idle
    /\ running' = [running EXCEPT ![t] =
                      [op |-> "Root", n |-> Size, held |-> mutex = t, pc |-> "called"]]
    /\ UNCHANGED <<logs, sizes, readOnly, closed, alive, truncating, dReadFails, ret,
                   ghosts, seen, mutex>>

\* Append(d) is called by goroutine t, which has not taken t.mutex yet; at is
\* the size of the tree at the call
AppendCall(t, d) ==
    /\ alive /\ running[t] = Idle
    /\ Size + Cardinality({u \in Threads : running[u].op = "Append"}) < MaxLeaves
    /\ running' = [running EXCEPT ![t] =
                      [op |-> "Append", d |-> d, held |-> TRUE, pc |-> "called",
                       at |-> Size]]
    /\ UNCHANGED <<logs, sizes, readOnly, closed, alive, truncating, dReadFails, ret,
                   ghosts, seen, mutex>>

\* as Lock, not waiting for the mutex to be free
LockMut(t) ==
    /\ alive /\ running[t].op # "none" /\ running[t].pc = "called"
    /\ mutex' = t
    /\ running' = [running EXCEPT ![t].pc = "locked"]
    /\ UNCHANGED <<logs, sizes, readOnly, closed, alive, truncating, dReadFails, ret,
                   ghosts, seen>>

\* t.mutex.Lock() of a call that goroutine t has made: of Append, or of the
\* RootAt that Root calls
Lock(t) ==
    /\ alive /\ running[t].op # "none" /\ running[t].pc = "called"
    /\ mutex = 0
    /\ mutex' = t
    /\ running' = [running EXCEPT ![t].pc = "locked"]
    /\ UNCHANGED <<logs, sizes, readOnly, closed, alive, truncating, dReadFails, ret,
                   ghosts, seen>>

\* Append from the tests of closed and readOnly to cLog.Flush: the three logs
\* are written at the offsets and for the index that the fields give, no log
\* call failing; the fields are not updated yet
AppendWrite(t) ==
    /\ alive /\ running[t].op = "Append" /\ running[t].pc = "locked"
    /\ ~closed /\ ~readOnly
    /\ LET r == AppendRun(running[t].d, "none", 0)
       IN  /\ pLog' = r.pLog
           /\ dLog' = r.dLog
           /\ cLog' = r.cLog
           /\ running' = [running EXCEPT ![t] =
                             [pc |-> "written", n |-> r.n, h |-> r.h,
                              dCount |-> (r.dLogSize - dLogSize) \div sha256Size]
                                 @@ running[t]]
    /\ UNCHANGED <<sizes, readOnly, closed, alive, truncating, dReadFails, ret, ghosts,
                   seen, mutex>>

\* what a call c other than Append and Close returns
Answer(c) ==
    CASE c.op \in {"Root", "RootAt"} -> RootAt(c.n)
      [] c.op = "DataAt" -> DataAt(c.n)
      [] c.op = "InclusionProof" -> InclusionProof(c.i, c.j)
      [] c.op = "ConsistencyProof" -> ConsistencyProof(c.i, c.j)
      [] c.op = "Sync" -> SyncResult("none")

\* the call as it is handed back to the caller
Called(c) == [x \in DOMAIN c \ {"pc", "dCount"} |-> c[x]]

\* the rest of the call goroutine t is in, no log call failing, up to the
\* deferred t.mutex.Unlock(): for an Append that has written the logs, the
\* update of the three size fields
Leave(t) ==
    /\ alive /\ running[t].op # "none"
    /\ running[t].pc = "written"
          \/ (running[t].pc = "locked" /\ (running[t].op = "Append" => closed \/ readOnly))
    /\ mutex' = 0
    /\ running' = [running EXCEPT ![t] = Idle]
    /\ seen' = NotKilled
    /\ LET c == running[t]
       IN  IF c.op = "Append" /\ c.pc = "written"
           THEN /\ pLogSize' = pLogSize + 4 + Len(c.d)
                /\ dLogSize' = dLogSize + c.dCount * sha256Size
                /\ cLogSize' = cLogSize + cLogEntrySize
                /\ ret' = Called(c) @@ [err |-> ErrNil]
                /\ appended' = appended \cup {<<c.n, c.d>>}
                /\ roots' = roots \cup
                               {<<c.n, DReadAt(dLog, RootSlot(c.n) * sha256Size).h>>}
                /\ UNCHANGED <<logs, readOnly, closed, alive, truncating, dReadFails,
                               faults>>
           ELSE IF c.op = "Append"
           THEN /\ ret' = Called(c) @@ [n |-> 0, h |-> ZeroDigest,
                                        err |-> IF closed THEN ErrAlreadyClosed
                                                ELSE ErrReadOnly]
                /\ UNCHANGED <<logs, sizes, readOnly, closed, alive, truncating,
                               dReadFails, ghosts>>
           ELSE IF c.op = "Close"
           THEN /\ ret' = Called(c) @@ [err |-> IF closed THEN ErrAlreadyClosed
                                                ELSE ErrNil]
                /\ closed' = TRUE
                /\ UNCHANGED <<logs, sizes, readOnly, alive, truncating, dReadFails,
                               ghosts>>
           ELSE /\ ret' = Called(c) @@ Answer(c)
                /\ UNCHANGED <<logs, sizes, readOnly, closed, alive, truncating,
                               dReadFails, ghosts>>

(* --------------------------- specifications ---------------------------- *)

\* appends, failing log calls, kills, noise and reopens
Next ==
    \/ AppendOk
    \/ AppendFails
    \/ CloseOk
    \/ Kill
    \/ KillInAppend
    \/ DNoise
    \/ ReopenRW

Spec == Init /\ [][Next]_vars

\* appends, kills and reopens; no log call returns an error
NextCrash ==
    \/ AppendOk
    \/ Kill
    \/ KillInAppend
    \/ ReopenRW

SpecCrash == Init /\ [][NextCrash]_vars

\* appends, Close, noise at the end of the digest log, and reopens
NextNoise ==
    \/ AppendOk
    \/ CloseOk
    \/ DNoise
    \/ ReopenRW

SpecNoise == Init /\ [][NextNoise]_vars

\* appends, Close, logs cut short or carrying extra bytes, and reopens
NextDamage ==
    \/ AppendOk
    \/ CloseOk
    \/ PCut
    \/ DCut
    \/ CCut
    \/ PNoise
    \/ DNoise
    \/ ReopenRW

SpecDamage == Init /\ [][NextDamage]_vars

\* successful Appends, Close and reopen
NextReopen ==
    \/ AppendOk
    \/ CloseOk
    \/ ReopenRW

SpecReopen == Init /\ [][NextReopen]_vars

\* Appends on one handle, log calls failing
NextFail ==
    \/ AppendOk
    \/ AppendFails
    \/ CloseOk

SpecFail == Init /\ [][NextFail]_vars

\* a tree grown from empty by successful Appends on one handle
NextGrow ==
    \/ GrowOk
    \/ CloseOk

SpecGrow == Init /\ [][NextGrow]_vars

\* the calls of the public interface on one handle
NextCalls ==
    \/ CallAppendOk
    \/ CallAppendFails
    \/ \E d \in Payloads : AppendRejected(d)
    \/ CallSize
    \/ CallDataAt
    \/ CallRootAt
    \/ CallRoot
    \/ CallInclusionProof
    \/ CallConsistencyProof
    \/ Sync
    \/ CloseOk

SpecCalls == Init /\ [][NextCalls]_vars

\* a tree grown by Appends, synced and closed, the Close of any log failing
NextClose ==
    \/ AppendOk
    \/ Sync
    \/ Close

SpecClose == Init /\ [][NextClose]_vars

\* goroutines calling one handle, each call in the steps the mutex divides it in
NextThreads ==
    \/ \E t \in Threads, c \in LockedCalls : Enter(t, c)
    \/ \E t \in Threads : SizeCall(t)
    \/ \E t \in Threads : RootEnter(t)
    \/ \E t \in Threads : Lock(t)
    \/ \E t \in Threads : AppendWrite(t)
    \/ \E t \in Threads : Leave(t)

SpecThreads == Init /\ [][NextThreads]_vars

\* the geometry helpers applied to the words of GeometryArgs
NextGeometry == Geometry

SpecGeometry == Init /\ [][NextGeometry]_vars

\* appends, roots and proofs on a handle whose digest log may stop answering
\* reads
NextIO ==
    \/ AppendOk
    \/ CallRootAt
    \/ CallRoot
    \/ CallInclusionProof
    \/ CallConsistencyProof
    \/ DReadBreaks

SpecIO == Init /\ [][NextIO]_vars

\* goroutines calling Append on one handle at the same time
NextAppends ==
    \/ \E t \in Threads, d \in Payloads : AppendCall(t, d)
    \/ \E t \in Threads : Lock(t)
    \/ \E t \in Threads : AppendWrite(t)
    \/ \E t \in Threads : Leave(t)

SpecAppends == Init /\ [][NextAppends]_vars

\* the calls of the public interface on a handle that, once closed, is
\* opened again read-only
NextReadOnly ==
    \/ CallAppendOk
    \/ \E d \in Payloads : AppendRejected(d)
    \/ CallSize
    \/ CallDataAt
    \/ CallRootAt
    \/ CallRoot
    \/ CallInclusionProof
    \/ CallConsistencyProof
    \/ Sync
    \/ CloseOk
    \/ ReopenRO

SpecReadOnly == Init /\ [][NextReadOnly]_vars

(* --------------------------- reference tree ---------------------------- *)

\* the handle can be called
Open == alive /\ ~closed

\* the payload that a successful Append committed as leaf n
PayloadOf(n) == (CHOOSE e \in appended : e[1] = n)[2]

\* every leaf up to n was committed by an Append that returned without error
Known(n) == \A m \in 1 .. n : \E e \in appended : e[1] = m

RECURSIVE SplitPoint(_, _)
\* the largest power of two below w, for w > 1
SplitPoint(w, k) == IF 2 * k < w THEN SplitPoint(w, 2 * k) ELSE k

RECURSIVE MTH(_, _)
\* the Merkle root over the leaves lo .. hi: the left subtree takes the largest
\* power of two below the width, a leaf hashes its bare payload
MTH(lo, hi) ==
    IF lo = hi THEN Sum256(PayloadOf(lo))
    ELSE LET k == SplitPoint(hi - lo + 1, 1)
         IN  Sum256Node(MTH(lo, lo + k - 1), MTH(lo + k, hi))

RECURSIVE SkipEven(_)
\* fn and sn shifted right until fn is odd or zero
SkipEven(fs) ==
    IF fs[1] % 2 = 1 \/ fs[1] = 0 THEN fs
    ELSE SkipEven(<<fs[1] \div 2, fs[2] \div 2>>)

RECURSIVE FoldInclusion(_, _, _, _)
\* the audit-path fold: fn the leaf index, sn the last index, r the running digest
FoldInclusion(fn, sn, r, path) ==
    IF path = << >> THEN [root |-> r, ok |-> sn = 0]
    ELSE IF sn = 0 THEN [root |-> r, ok |-> FALSE]
    ELSE IF fn % 2 = 1 \/ fn = sn
         THEN LET fs == IF fn % 2 = 1 THEN <<fn, sn>> ELSE SkipEven(<<fn, sn>>)
              IN  FoldInclusion(fs[1] \div 2, fs[2] \div 2,
                                Sum256Node(Head(path), r), Tail(path))
         ELSE FoldInclusion(fn \div 2, sn \div 2, Sum256Node(r, Head(path)), Tail(path))

\* VerifyInclusion(at, i, root, leaf) of a path
VerifyInclusion(path, at, i, root, leaf) ==
    LET f == FoldInclusion(i, at, leaf, path)
    IN  i <= at /\ f.ok /\ f.root = root

RECURSIVE SkipOdd(_)
\* fn and sn shifted right while fn is odd
SkipOdd(fs) ==
    IF fs[1] % 2 = 1 THEN SkipOdd(<<fs[1] \div 2, fs[2] \div 2>>) ELSE fs

RECURSIVE FoldConsistency(_, _, _, _, _)
\* the consistency fold: fr and sr the digests recomputed for the two trees
FoldConsistency(fn, sn, fr, sr, path) ==
    IF path = << >> THEN [first |-> fr, second |-> sr]
    ELSE IF fn % 2 = 1 \/ fn = sn
         THEN LET fs == IF fn % 2 = 1 THEN <<fn, sn>> ELSE SkipEven(<<fn, sn>>)
              IN  FoldConsistency(fs[1] \div 2, fs[2] \div 2,
                                  Sum256Node(Head(path), fr),
                                  Sum256Node(Head(path), sr), Tail(path))
         ELSE FoldConsistency(fn \div 2, sn \div 2, fr,
                              Sum256Node(sr, Head(path)), Tail(path))

\* VerifyConsistency(firstRoot, secondRoot, first, second) of a path whose
\* first entry is the digest both roots are recomputed from
VerifyConsistency(path, firstRoot, secondRoot, first, second) ==
    IF path = << >> THEN first = second /\ firstRoot = secondRoot
    ELSE LET fs == SkipOdd(<<first, second>>)
             f == FoldConsistency(fs[1], fs[2], Head(path), Head(path), Tail(path))
         IN  first <= second /\ f.first = firstRoot /\ f.second = secondRoot

\* the leaf that is hashed together with leaf i in the tree of j leaves, 0 when
\* leaf i is combined with a subtree or with nothing
LeafSibling(i, j) ==
    IF i % 2 = 0 THEN i - 1
    ELSE IF i + 1 <= j THEN i + 1
    ELSE 0

\* the two digests a root of two or more leaves is the node hash of
RootChildren(root) == {root[3], root[4]}

\* the number of 1-bits of the word x
PopCount(x) == Cardinality({b \in 0 .. (WordBits - 1) : BitSet(x, b)})

RECURSIVE SpanLoop(_, _, _)
\* the sum of the l lowest 1-bits of w, b the value of its lowest bit
SpanLoop(w, l, b) ==
    IF l = 0 THEN 0
    ELSE IF w % 2 = 1 THEN b + SpanLoop(w \div 2, l - 1, 2 * b)
    ELSE SpanLoop(w \div 2, l, 2 * b)

\* the number of leaves under the l-th digest promoted by the Append of leaf k:
\* leaf k and the subtrees of the l lowest 1-bits of k - 1
Span(k, l) == 1 + SpanLoop(k - 1, l, 1)

RECURSIVE PImage(_)
\* the payload log of n committed leaves: per leaf, the payload's length in
\* four bytes and the payload
PImage(n) ==
    IF n = 0 THEN << >>
    ELSE PImage(n - 1) \o PutUint(Len(PayloadOf(n)), 4) \o PayloadOf(n)

\* the commit log of n committed leaves: per leaf, the offset of its record in
\* the payload log in eight bytes and the payload's length in four
CImage(n) ==
    IF n = 0 THEN << >>
    ELSE LET rec(m) == PutUint(Len(PImage(m - 1)), 8) \o PutUint(Len(PayloadOf(m)), 4)
             RECURSIVE upTo(_)
             upTo(m) == IF m = 0 THEN << >> ELSE upTo(m - 1) \o rec(m)
         IN  upTo(n)

(* ----------------------------- properties ------------------------------- *)

\* C1: on an open handle, DataAt(n) returns exactly the payload appended as
\* leaf n, for every leaf a successful Append committed, whatever Closes,
\* reopens and further Appends followed.
C1_DataRoundTrip ==
    Open => \A e \in appended :
                e[1] <= Size => DataAt(e[1]) = [val |-> e[2], err |-> ErrNil]

\* C2: in a tree grown from empty by successful Appends on one handle, RootAt(n)
\* is the Merkle root over the leaves 1..n for every 1 <= n <= Size(), and right
\* after the n-th Append Root() = RootAt(n).
C2_RootIsMerkleRoot ==
    Open =>
        /\ \A n \in 1 .. Size : RootAt(n) = [val |-> MTH(1, n), err |-> ErrNil]
        /\ (ret.op = "Append" /\ ret.err = ErrNil) => Root = RootAt(ret.n)

\* a tree of five leaves has just been grown: its root spans two levels of
\* promoted digests and a lone rightmost leaf
C2_Witness ==
    /\ Open /\ Size = 5 /\ ret.op = "Append" /\ ret.err = ErrNil /\ ret.n = 5
    /\ RootAt(5).val = MTH(1, 5)

\* C3: in a tree grown from empty by successful Appends, for all
\* 1 <= i <= j <= Size(), folding H(payload_i) with InclusionProof(i, j) by the
\* audit-path rule for leaf index i-1 and last index j-1 yields RootAt(j).
C3_InclusionVerifies ==
    Open => \A j \in 1 .. Size : \A i \in 1 .. j :
        /\ InclusionProof(i, j).err = ErrNil
        /\ VerifyInclusion(InclusionProof(i, j).val, j - 1, i - 1,
                           RootAt(j).val, Sum256(PayloadOf(i)))

\* a proof of three entries for a leaf in the middle of a six-leaf tree
C3_Witness ==
    /\ Open /\ Size >= 6
    /\ Len(InclusionProof(3, 6).val) = 3
    /\ VerifyInclusion(InclusionProof(3, 6).val, 5, 2, RootAt(6).val, Sum256(PayloadOf(3)))

C5_CrashSafety ==
    (ret.op = "OpenWith" /\ seen.killed /\ ~seen.cWritten) =>
        /\ ret.err = ErrNil
        /\ Open
        /\ Size = seen.view.size
        /\ View = seen.view

\* a tree of two leaves or more reopened after a kill inside Append that left
\* uncommitted bytes at the end of both P and D
C5_Witness ==
    /\ Open /\ ret.op = "OpenWith" /\ ret.err = ErrNil
    /\ seen.killed /\ ~seen.cWritten
    /\ Size >= 2
    /\ LogSize(cLog) = Size * cLogEntrySize
    /\ DSize(dLog) > nodesUpto(Size) * sha256Size
    /\ \A x \in 1 .. Len(dLog.data) : dLog.data[x][1] # NoiseDigest
    /\ LogSize(pLog) > pLogSize + 4
    /\ RootAt(Size).val = MTH(1, Size)

\* C6: when a tree whose k >= 1 leaves were all committed by successful Appends is
\* open after a reopen that found D longer than nodes_upto(k)*32, the next
\* successful Append writes its digests from D offset nodes_upto(k)*32 on, and
\* afterwards RootAt(k+1) is the Merkle root over the leaves 1..k+1.
C6_NoiseOverwritten ==
    [][(/\ Open /\ ret.op = "OpenWith" /\ Size >= 1 /\ Known(Size)
        /\ DSize(dLog) > nodesUpto(Size) * sha256Size
        /\ ret'.op = "Append" /\ ret'.err = ErrNil) =>
          /\ DigestOffset = nodesUpto(Size) * sha256Size
          /\ Size' = Size + 1
          /\ (RootAt(Size) = [val |-> MTH(1, Size), err |-> ErrNil])']_vars

\* C7: on one handle, after an Append that returned without error, whatever
\* Appends failed before it, Size() is the number of successful Appends and
\* DataAt(n), RootAt(n) for every n <= Size() are those of the successfully
\* appended payloads.
C7_FailedAppendRecovered ==
    (Open /\ ret.op = "Append" /\ ret.err = ErrNil) =>
        /\ Size = Cardinality(appended)
        /\ Known(Size)
        /\ \A n \in 1 .. Size :
              /\ DataAt(n) = [val |-> PayloadOf(n), err |-> ErrNil]
              /\ RootAt(n) = [val |-> MTH(1, n), err |-> ErrNil]

\* C8: the log calls of every Append are a prefix of P set_offset, P write,
\* P flush, D set_offset, D write, D flush, C write, C flush; an Append that
\* fails at a P step leaves D and C as they were, one that fails at a D step
\* leaves C as it was; and C changes only after P holds the whole payload
\* record and D the whole digest of the leaf, both flushed.
C8_CommitOrdering ==
    [][(ret'.op = "Append" /\ Open /\ ~readOnly) =>
          LET ops == ret'.ops
              at(c) == CHOOSE x \in 1 .. Len(ops) : ops[x] = c
              has(c) == \E x \in 1 .. Len(ops) : ops[x] = c
          IN  /\ \E m \in 0 .. Len(AppendOrder) :
                    \/ ops = SubSeq(AppendOrder, 1, m)
                    \/ ops = SubSeq(AppendOrder, 1, 2) \o SubSeq(AppendOrder, 4, m)
              /\ ret'.fp \in {"pAppendLen", "pAppendData", "pFlush"} =>
                    dLog' = dLog /\ cLog' = cLog /\ ~has("D.Append") /\ ~has("C.Append")
              /\ ret'.fp \in {"dAppend", "dFlush"} =>
                    cLog' = cLog /\ ~has("C.Append")
              /\ cLog' # cLog =>
                    /\ has("P.Flush") /\ has("D.Flush") /\ has("C.Append")
                    /\ at("P.Append") < at("P.Flush")
                    /\ at("P.Flush") < at("D.SetOffset")
                    /\ at("D.SetOffset") < at("D.Append")
                    /\ at("D.Append") < at("D.Flush")
                    /\ at("D.Flush") < at("C.Append")
                    /\ ret'.fp \in {"cAppend", "cFlush", "none"}
                    /\ LogSize(pLog') >= PayloadOffset + 4
                    /\ DSize(dLog') >= DigestOffset + sha256Size
                    /\ DReadAt(dLog', DigestOffset).err = ErrNil]_vars

\* an Append has failed at the flush of D after a leaf was committed: the
\* digests are in D and C holds the committed records only
C8_Witness ==
    /\ Open /\ ret.op = "Append" /\ ret.fp = "dFlush" /\ ret.err = ErrIO
    /\ Size >= 1
    /\ LogSize(cLog) = cLogSize
    /\ DSize(dLog) > dLogSize
    /\ ret.ops = SubSeq(AppendOrder, 1, 7)

C10_RootStability ==
    [][/\ Open => \A r \in roots : RootAt(r[1]) = [val |-> r[2], err |-> ErrNil]
       /\ ret'.op = "Append" =>
             DTake(dLog'.data, nodesUpto(Size) * sha256Size)
                 = DTake(dLog.data, nodesUpto(Size) * sha256Size)]_vars

\* two leaves are committed by Appends of which one had failed before, and the
\* roots of the two trees are the ones seen at their commits
C10_Witness ==
    /\ Open /\ Size = 2 /\ failed /\ Known(2)
    /\ ret.op = "Append" /\ ret.err = ErrNil
    /\ <<1, MTH(1, 1)>> \in roots
    /\ <<2, MTH(1, 2)>> \in roots
    /\ RootAt(1).val = MTH(1, 1)
    /\ RootAt(2).val = MTH(1, 2)

C12_PayloadExtentChecked ==
    (ret.op = "OpenWith" /\ ret.err = ErrNil /\ Open /\ cLogSize > 0) =>
        LET b == LogReadAt(cLog, cLogEntrySize, cLogSize - cLogEntrySize).bs
            pOff == Uint(SubSeq(b, 1, 8))
            pSize == Uint(SubSeq(b, 9, 12))
        IN  LogSize(pLog) >= pOff + 4 + pSize

C14_ClosedRejectsAll ==
    [][(alive /\ closed /\ ret'.op \in {"Append", "Size", "Root", "RootAt", "DataAt",
                                        "InclusionProof", "ConsistencyProof", "Sync",
                                        "Close"}) =>
          /\ ret'.err = ErrAlreadyClosed
          /\ logs' = logs]_vars

\* C15: on a handle opened read-only, Append and Sync return read-only without
\* a call on any log, and Size, Root, RootAt, DataAt, InclusionProof and
\* ConsistencyProof answer as they do on a writable handle over the same logs:
\* the leaf count, the leaves, the Merkle roots and proofs that verify.
C15_ReadOnly ==
    [][(Open /\ readOnly) =>
          /\ ret'.op = "Append" =>
                (ret'.err = ErrReadOnly /\ ret'.ops = << >> /\ logs' = logs /\ sizes' = sizes)
          /\ ret'.op = "Sync" =>
                (ret'.err = ErrReadOnly /\ ret'.syncs = << >> /\ logs' = logs /\ sizes' = sizes)
          /\ ret'.op \in {"Size", "Root", "RootAt", "DataAt", "InclusionProof",
                          "ConsistencyProof"} =>
                (logs' = logs /\ sizes' = sizes /\ ret'.err # ErrReadOnly)
          /\ ret'.op = "Size" => (ret'.err = ErrNil /\ ret'.val = Cardinality(appended))
          /\ (ret'.op = "Root" /\ Size >= 1) =>
                (ret'.err = ErrNil /\ ret'.val = MTH(1, Size))
          /\ (ret'.op = "RootAt" /\ ret'.n \in 1 .. Size) =>
                (ret'.err = ErrNil /\ ret'.val = MTH(1, ret'.n))
          /\ (ret'.op = "DataAt" /\ ret'.n \in 1 .. Size) =>
                (ret'.err = ErrNil /\ ret'.val = PayloadOf(ret'.n))
          /\ (ret'.op = "InclusionProof" /\ ret'.i <= ret'.j /\ ret'.j \in 1 .. Size) =>
                /\ ret'.err = ErrNil
                /\ VerifyInclusion(ret'.val, ret'.j - 1, ret'.i - 1, MTH(1, ret'.j),
                                   Sum256(PayloadOf(ret'.i)))
          /\ (ret'.op = "ConsistencyProof" /\ ret'.i <= ret'.j /\ ret'.j \in 1 .. Size) =>
                /\ ret'.err = ErrNil
                /\ VerifyConsistency(ret'.val, MTH(1, ret'.i), MTH(1, ret'.j),
                                     ret'.i - 1, ret'.j - 1)]_vars

\* a read-only handle over one leaf has refused a Sync
C15_Witness ==
    /\ Open /\ readOnly /\ Size = 1
    /\ ret.op = "Sync" /\ ret.err = ErrReadOnly /\ ret.syncs = << >>

\* C17: on an open handle, InclusionProof(i, j) and ConsistencyProof(i, j)
\* return illegal-arguments when i > j and otherwise non-existent-data when
\* j > Size(); DataAt(n) returns illegal-arguments when n < 1 and
\* non-existent-data when n > Size(); Root() and RootAt(n) return empty-tree
\* when Size() = 0, and RootAt(n) returns non-existent-data when n > Size() > 0;
\* none of these calls changes a log or Size().
C17_BoundaryValidation ==
    [][Open =>
          /\ ret'.op \in {"InclusionProof", "ConsistencyProof"} =>
                /\ ret'.i > ret'.j => ret'.err = ErrIllegalArguments
                /\ (ret'.i <= ret'.j /\ ret'.j > Size) => ret'.err = ErrUnexistentData
          /\ ret'.op = "DataAt" =>
                /\ ret'.n < 1 => ret'.err = ErrIllegalArguments
                /\ ret'.n > Size => ret'.err = ErrUnexistentData
          /\ (ret'.op \in {"Root", "RootAt"} /\ Size = 0) => ret'.err = ErrEmptyTree
          /\ (ret'.op = "RootAt" /\ Size > 0 /\ ret'.n > Size) =>
                ret'.err = ErrUnexistentData
          /\ ret'.op \in {"InclusionProof", "ConsistencyProof", "DataAt", "Root",
                          "RootAt"} =>
                (logs' = logs /\ sizes' = sizes /\ Open')]_vars

\* InclusionProof(2, 1) on the empty tree: both tests fail, the first decides
C17_Witness ==
    /\ Open /\ Size = 0
    /\ ret.op = "InclusionProof" /\ ret.i = 2 /\ ret.j = 1
    /\ ret.err = ErrIllegalArguments

\* C18: on every open handle, of an empty tree or not, RootAt(0) returns
\* empty-tree, never a digest and never a fault.
C18_RootAtZero ==
    [][(Open /\ ret'.op = "RootAt" /\ ret'.n = 0) => ret'.err = ErrEmptyTree]_vars

\* C19 as stated: the path of InclusionProof(i, j) runs from the root down: its
\* first entry is one of the two digests hashed into RootAt(j), its last entry
\* is the digest of the leaf hashed together with leaf i.
C19_RootFirst ==
    Open => \A j \in 2 .. Size : \A i \in 1 .. j :
        LET path == InclusionProof(i, j).val
        IN  /\ path # << >>
            /\ path[1] \in RootChildren(RootAt(j).val)
            /\ LeafSibling(i, j) # 0 =>
                  path[Len(path)] = Sum256(PayloadOf(LeafSibling(i, j)))

\* C19: the path of InclusionProof(i, j) runs from the leaf up: its first entry
\* is the digest of the leaf hashed together with leaf i, where there is one,
\* and its last entry is one of the two digests hashed into RootAt(j).
C19_LeafFirst ==
    Open => \A j \in 2 .. Size : \A i \in 1 .. j :
        LET path == InclusionProof(i, j).val
        IN  /\ path # << >>
            /\ path[Len(path)] \in RootChildren(RootAt(j).val)
            /\ LeafSibling(i, j) # 0 =>
                  path[1] = Sum256(PayloadOf(LeafSibling(i, j)))

\* the path of leaf 1 in the tree of four leaves: leaf 2, then the node over
\* leaves 3 and 4
C19_Witness ==
    /\ Open /\ Size >= 4
    /\ InclusionProof(1, 4).val =
          <<Sum256(PayloadOf(2)), Sum256Node(Sum256(PayloadOf(3)), Sum256(PayloadOf(4)))>>

\* C20: Close on an open handle calls Close on P, D and C, each once, also when
\* an earlier one fails; it returns nil only when none failed and otherwise an
\* error made of the failures; the handle is closed either way, and Close on
\* the closed handle returns already-closed and closes no log.
C20_CloseAll ==
    [][(alive /\ ret'.op = "Close") =>
          /\ closed'
          /\ logs' = logs /\ sizes' = sizes
          /\ ~closed =>
                /\ ret'.closes = <<"P", "D", "C">>
                /\ ret'.err \in {ErrNil, ErrIO}
                /\ ret'.err = ErrNil <=> ret'.errors = {}
          /\ closed =>
                /\ ret'.err = ErrAlreadyClosed
                /\ ret'.closes = << >>]_vars

\* the Close of P has failed and those of D and C were still called; the handle
\* is closed
C20_Witness ==
    /\ alive /\ closed /\ Size = 1
    /\ ret.op = "Close" /\ ret.err = ErrIO
    /\ ret.errors = {"P"} /\ ret.closes = <<"P", "D", "C">>

\* C16: every call of Append, DataAt, Root, RootAt, InclusionProof,
\* ConsistencyProof, Size, Sync and Close holds t.mutex at each of its reads of
\* the handle's fields, and the calls are totally ordered: what Root returns is
\* what RootAt answers for the Size() of the state it runs in under the mutex.
C16_MutexHeld ==
    [][(ret' # ret /\ "held" \in DOMAIN ret') =>
          /\ ret'.held
          /\ ret'.op = "Root" => (ret'.val = Root.val /\ ret'.err = Root.err)]_vars

\* C21: for every n from 1 to MaxGeometry, nodesUpto(n) =
\* nodesUntil(n) + levelsAt(n) + 1 and levelsAt(n) is the number of 1-bits of
\* n - 1; nodesUpto(0) = 0; nodesUpto(1 .. 16) are the values of the test table.
C21_GeometryIdentity ==
    ret.op = "geometry" =>
        /\ ret.n \in 1 .. MaxGeometry =>
              /\ ret.nodesUpto = ret.nodesUntil + ret.levelsAt + 1
              /\ ret.levelsAt = PopCount(ret.n - 1)
        /\ ret.n = 0 => ret.nodesUpto = 0
        /\ ret.n \in 1 .. Len(nodesUptoTests) => ret.nodesUpto = nodesUptoTests[ret.n]

\* the last row of the table: nodesUpto(16) = 48 = nodesUntil(16) + 4 + 1
C21_Witness ==
    /\ ret.op = "geometry" /\ ret.n = 16
    /\ ret.nodesUpto = 48 /\ ret.nodesUntil = 43 /\ ret.levelsAt = 4

\* C26: for every word n, nodesUpto(n) ends without a fault, and
\* nodesUntil(n) = 0 for every n <= 1, n = 0 included.
C26_GeometryTotal ==
    ret.op = "geometry" =>
        /\ ret.nodesUpto # DivideByZero
        /\ ret.nodesUntil # DivideByZero
        /\ ret.n <= 1 => ret.nodesUntil = 0

\* C22: while the reads of D fail, an Append that reads a node to compute its
\* promoted digests returns an error and writes no commit record, RootAt and
\* Root of an existing tree return an error, and InclusionProof and
\* ConsistencyProof never return entries of a path with a nil error.
C22_ReadErrorsSurfaced ==
    [][(Open /\ dReadFails) =>
          /\ (ret'.op = "Append" /\ levelsAt(Size + 1) > 0) =>
                (ret'.err # ErrNil /\ cLog' = cLog)
          /\ (ret'.op = "RootAt" /\ ret'.n \in 1 .. Size) => ret'.err # ErrNil
          /\ (ret'.op = "Root" /\ Size >= 1) => ret'.err # ErrNil
          /\ (ret'.op \in {"InclusionProof", "ConsistencyProof"} /\ ret'.err = ErrNil) =>
                ret'.val = << >>]_vars

C24_HashLogDensity ==
    Open =>
        /\ dLogSize = nodesUpto(Size) * sha256Size
        /\ DSize(dLog) = dLogSize
        /\ \A n \in 1 .. Size :
              /\ nodesUpto(n) - nodesUntil(n) = 1 + levelsAt(n)
              /\ DReadAt(dLog, nodesUntil(n) * sha256Size) =
                    [h |-> Sum256(PayloadOf(n)), err |-> ErrNil]
              /\ \A l \in 1 .. levelsAt(n) :
                    /\ DReadAt(dLog, (nodesUntil(n) + l) * sha256Size) =
                          [h |-> MTH(n - Span(n, l) + 1, n), err |-> ErrNil]
                    /\ Span(n, l) > Span(n, l - 1)

\* the Append of leaf 6 has added its leaf digest and two promoted digests
\* behind the ten records of five leaves
C24_Witness ==
    /\ Open /\ Size = 6 /\ ret.op = "Append" /\ ret.err = ErrNil /\ ret.n = 6
    /\ nodesUntil(6) = 10 /\ levelsAt(6) = 2
    /\ DSize(dLog) = 13 * sha256Size

\* C25: Appends called by several goroutines at the same time take effect one
\* after the other: the indices returned without error are 1 .. Size, each
\* returned once, DataAt of a returned index is the payload of that call, at
\* most one Append is between its writes and its return, and when none is the
\* three logs hold the records of the committed leaves and nothing else.
C25_AppendsSerialized ==
    Open =>
        /\ Cardinality(appended) = Size
        /\ {e[1] : e \in appended} = 1 .. Size
        /\ \A e \in appended : DataAt(e[1]) = [val |-> e[2], err |-> ErrNil]
        /\ (ret.op = "Append" /\ ret.err = ErrNil) =>
              /\ <<ret.n, ret.d>> \in appended
              /\ ret.h = MTH(1, ret.n)
        /\ Cardinality({t \in Threads : running[t].op = "Append"
                                            /\ running[t].pc \in {"locked", "written"}}) <= 1
        /\ (\A t \in Threads : running[t].op = "Append" => running[t].pc = "called") =>
              /\ pLog.data = PImage(Size)
              /\ cLog.data = CImage(Size)
              /\ DSize(dLog) = nodesUpto(Size) * sha256Size
              /\ \A n \in 1 .. Size : RootAt(n) = [val |-> MTH(1, n), err |-> ErrNil]

\* an Append called on the empty tree has returned index 2: it was called
\* before the Append that returned index 1 had returned
C25_Witness ==
    /\ Open
    /\ ret.op = "Append" /\ ret.err = ErrNil
    /\ ret.at = 0 /\ ret.n = 2
    /\ Size = 2
    /\ DataAt(2).val = ret.d

====
